---- MODULE Spec2Model ----
(***************************************************************************)
(* Model of powerstrip/powerstrip.py: the Powerstrip AT-command driver.    *)
(* Text is a sequence of one-character strings, bytes are integers.  The   *)
(* serial device is an external collaborator: it answers each command line *)
(* with an arbitrary reply line, or too late for the 1 s read timeout.     *)
(***************************************************************************)
EXTENDS Integers, Sequences, FiniteSets, TLC

\* ---------------------------------------------------------------- bounds
MaxCalls == 2      \* public operations invoked in one behaviour
MaxRail == 12      \* largest rail index a caller passes

\* ------------------------------------------------------- text and bytes
\* ASCII code points 32..95 and 97..126, in code-point order (the grave
\* accent, 96, has no TLA+ string literal and is left out).
AsciiLow ==
  <<
     " ", "!", "\"", "#", "$", "%", "&", "'", "(", ")", "*", "+", ",", "-", ".", "/",
     "0", "1", "2", "3", "4", "5", "6", "7", "8", "9", ":", ";", "<", "=", ">", "?",
     "@", "A", "B", "C", "D", "E", "F", "G", "H", "I", "J", "K", "L", "M", "N", "O",
     "P", "Q", "R", "S", "T", "U", "V", "W", "X", "Y", "Z", "[", "\\", "]", "^", "_"
  >>

AsciiHigh ==
  <<
     "a", "b", "c", "d", "e", "f", "g", "h", "i", "j", "k", "l", "m", "n", "o", "p",
     "q", "r", "s", "t", "u", "v", "w", "x", "y", "z", "{", "|", "}", "~"
  >>

Whitespace == {" ", "\t", "\n", "\r", "\f"}

\* Code point of an ASCII character, as str.encode('utf-8') emits it.
Ord(c) ==
  IF c = "\t" THEN 9
  ELSE IF c = "\n" THEN 10
  ELSE IF c = "\f" THEN 12
  ELSE IF c = "\r" THEN 13
  ELSE IF \E i \in 1..Len(AsciiLow) : AsciiLow[i] = c
       THEN 31 + (CHOOSE i \in 1..Len(AsciiLow) : AsciiLow[i] = c)
  ELSE 96 + (CHOOSE i \in 1..Len(AsciiHigh) : AsciiHigh[i] = c)

Chr(b) ==
  IF b = 9 THEN "\t"
  ELSE IF b = 10 THEN "\n"
  ELSE IF b = 12 THEN "\f"
  ELSE IF b = 13 THEN "\r"
  ELSE IF b <= 95 THEN AsciiLow[b - 31]
  ELSE AsciiHigh[b - 96]

\* str.encode('utf-8') on ASCII text: one byte per character.
Encode(s) == [i \in 1..Len(s) |-> Ord(s[i])]

\* A byte sequence is valid UTF-8 here when every byte is ASCII; the only
\* non-ASCII byte the device model emits is the lone byte 255, which no
\* UTF-8 sequence contains.
Decodable(bs) == \A i \in 1..Len(bs) : bs[i] < 128

\* bytes.decode('utf-8') on a decodable byte sequence.
Decode(bs) == [i \in 1..Len(bs) |-> Chr(bs[i])]

RECURSIVE LStrip(_)
LStrip(s) ==
  IF s # <<>> /\ Head(s) \in Whitespace THEN LStrip(Tail(s)) ELSE s

RECURSIVE RStrip(_)
RStrip(s) ==
  IF s # <<>> /\ s[Len(s)] \in Whitespace
  THEN RStrip(SubSeq(s, 1, Len(s) - 1))
  ELSE s

\* str.strip()
Strip(s) == LStrip(RStrip(s))

\* s[k:] for a 0-based start k
SliceFrom(s, k) == SubSeq(s, k + 1, Len(s))

StartsWith(s, p) == Len(s) >= Len(p) /\ SubSeq(s, 1, Len(p)) = p

Lower(c) ==
  IF Ord(c) >= 65 /\ Ord(c) <= 90 THEN Chr(Ord(c) + 32) ELSE c

LowerText(s) == [i \in 1..Len(s) |-> Lower(s[i])]

\* ------------------------------------------------------------- integers
Digits == <<"0", "1", "2", "3", "4", "5", "6", "7", "8", "9",
            "a", "b", "c", "d", "e", "f">>

IsDigit(c, base) == \E i \in 1..base : Digits[i] = Lower(c)

DigitVal(c) == (CHOOSE i \in 1..16 : Digits[i] = Lower(c)) - 1

AllDigits(s, base) == s # <<>> /\ \A i \in 1..Len(s) : IsDigit(s[i], base)

RECURSIVE DigitsVal(_, _)
DigitsVal(s, base) ==
  IF s = <<>> THEN 0
  ELSE base * DigitsVal(SubSeq(s, 1, Len(s) - 1), base) + DigitVal(s[Len(s)])

RECURSIVE NatText(_, _)
NatText(n, base) ==
  IF n < base THEN <<Digits[n + 1]>>
  ELSE NatText(n \div base, base) \o <<Digits[(n % base) + 1]>>

\* format(x) of an int, as an f-string renders it
IntText(x) == IF x < 0 THEN <<"-">> \o NatText(-x, 10) ELSE NatText(x, 10)

\* bin(v)
Bin(v) ==
  IF v < 0 THEN <<"-", "0", "b">> \o NatText(-v, 2)
  ELSE <<"0", "b">> \o NatText(v, 2)

ValueError == [kind |-> "raise", val |-> "ValueError"]

Return(v) == [kind |-> "return", val |-> v]

\* int(s, base) on stripped text: optional sign, for base 16 an optional
\* 0x prefix, then digits.  (Digit-group underscores are not modelled; no
\* reply line of the device model contains one.)
ParseInt(s, base) ==
  LET signed == s # <<>> /\ Head(s) \in {"+", "-"}
      body == IF signed THEN Tail(s) ELSE s
      prefixed == base = 16 /\ Len(body) >= 2
                  /\ body[1] = "0" /\ Lower(body[2]) = "x"
      digs == IF prefixed THEN SliceFrom(body, 2) ELSE body
  IN IF ~AllDigits(digs, base) THEN ValueError
     ELSE IF signed /\ Head(s) = "-" THEN Return(-DigitsVal(digs, base))
     ELSE Return(DigitsVal(digs, base))

\* --------------------------------------------------------------- floats
\* A float is kept as the exact decimal m / 10^e with no trailing zero in
\* the fraction, or as nan / inf / -inf.  On the short decimals used here
\* repr() and float() round-trip through this form.
RECURSIVE Pow10(_)
Pow10(e) == IF e = 0 THEN 1 ELSE 10 * Pow10(e - 1)

RECURSIVE Fin(_, _)
Fin(m, e) ==
  IF e > 0 /\ m % 10 = 0 THEN Fin(m \div 10, e - 1)
  ELSE [kind |-> "fin", m |-> m, e |-> e]

NaN == [kind |-> "nan", m |-> 0, e |-> 0]
PosInf == [kind |-> "inf", m |-> 0, e |-> 0]
NegInf == [kind |-> "-inf", m |-> 0, e |-> 0]

\* a < b on floats; every comparison with nan is false
FloatLt(a, b) ==
  IF a.kind = "nan" \/ b.kind = "nan" THEN FALSE
  ELSE IF a.kind = "-inf" THEN b.kind # "-inf"
  ELSE IF b.kind = "inf" THEN a.kind # "inf"
  ELSE IF a.kind = "inf" \/ b.kind = "-inf" THEN FALSE
  ELSE a.m * Pow10(b.e) < b.m * Pow10(a.e)

FloatGt(a, b) == FloatLt(b, a)

\* a != b on floats; nan differs from everything, itself included
FloatNe(a, b) ==
  IF a.kind = "nan" \/ b.kind = "nan" THEN TRUE ELSE a # b

RECURSIVE PadZeros(_, _)
PadZeros(s, w) == IF Len(s) >= w THEN s ELSE PadZeros(<<"0">> \o s, w)

\* format(n) of a float, as an f-string renders it (repr)
FloatText(n) ==
  IF n.kind = "nan" THEN <<"n", "a", "n">>
  ELSE IF n.kind = "inf" THEN <<"i", "n", "f">>
  ELSE IF n.kind = "-inf" THEN <<"-", "i", "n", "f">>
  ELSE LET a == IF n.m < 0 THEN -n.m ELSE n.m
           ip == a \div Pow10(n.e)
           fp == a % Pow10(n.e)
           frac == IF n.e = 0 THEN <<"0">> ELSE PadZeros(NatText(fp, 10), n.e)
       IN (IF n.m < 0 THEN <<"-">> ELSE <<>>)
          \o NatText(ip, 10) \o <<".">> \o frac

\* float(s): surrounding whitespace, optional sign, then nan, inf,
\* infinity or a decimal literal with at most one point.  (Exponents and
\* digit-group underscores are not modelled; no reply line of the device
\* model contains one.)
ParseFloat(s0) ==
  LET s == Strip(s0)
      signed == s # <<>> /\ Head(s) \in {"+", "-"}
      neg == signed /\ Head(s) = "-"
      body == IF signed THEN Tail(s) ELSE s
      word == LowerText(body)
      dots == {i \in 1..Len(body) : body[i] = "."}
      dot == IF dots = {} THEN Len(body) + 1 ELSE CHOOSE i \in dots : TRUE
      ip == SubSeq(body, 1, dot - 1)
      fp == SubSeq(body, dot + 1, Len(body))
      wellFormed == /\ Cardinality(dots) <= 1
                    /\ ip \o fp # <<>>
                    /\ \A i \in 1..Len(ip \o fp) : IsDigit((ip \o fp)[i], 10)
      mag == DigitsVal(ip \o fp, 10)
  IN IF word = <<"n", "a", "n">> THEN Return(NaN)
     ELSE IF word \in {<<"i", "n", "f">>,
                       <<"i", "n", "f", "i", "n", "i", "t", "y">>}
          THEN Return(IF neg THEN NegInf ELSE PosInf)
     ELSE IF ~wellFormed THEN ValueError
     ELSE Return(Fin(IF neg THEN -mag ELSE mag, Len(fp)))

\* ------------------------------------------------------------- Polarity
PolarityMembers == <<"POSITIVE", "NEGATIVE", "OFF">>

\* Variant of PolarityValue: NEGATIVE given POSITIVE's token.
PolarityValueDuplicated(p) ==
  CASE p = "POSITIVE" -> <<"V", "P", "O", "S">>
    [] p = "NEGATIVE" -> <<"V", "P", "O", "S">>
    [] p = "OFF" -> <<"O", "F", "F">>

\* Polarity.<member>.value
PolarityValue(p) ==
  CASE p = "POSITIVE" -> <<"V", "P", "O", "S">>
    [] p = "NEGATIVE" -> <<"V", "N", "E", "G">>
    [] p = "OFF" -> <<"O", "F", "F">>

\* Polarity(response): the first member defined with that value, else
\* ValueError
Polarity(response) ==
  LET hits == {i \in 1..Len(PolarityMembers) :
                 PolarityValue(PolarityMembers[i]) = response}
  IN IF hits = {} THEN ValueError
     ELSE Return(PolarityMembers[CHOOSE i \in hits : \A j \in hits : i <= j])

\* ------------------------------------------------- commands and replies
\* int(state) of a bool
BoolInt(state) == IF state THEN 1 ELSE 0

set_echo_command(state) == <<"A", "T", "E", "=">> \o IntText(BoolInt(state))

set_all_ac_command(state) ==
  <<"A", "T", "A", "C", "=">> \o IntText(BoolInt(state))

\* Variant of set_ac_command: the state formatted without int().
set_ac_command_bool(x, state) ==
  <<"A", "T", "A", "C">> \o IntText(x) \o <<"=">>
  \o (IF state THEN <<"T", "r", "u", "e">> ELSE <<"F", "a", "l", "s", "e">>)

set_ac_command(x, state) ==
  <<"A", "T", "A", "C">> \o IntText(x) \o <<"=">> \o IntText(BoolInt(state))

set_all_3v_command(state) ==
  <<"A", "T", "3", "V", "=">> \o IntText(BoolInt(state))

set_3v_command(x, state) ==
  <<"A", "T", "3", "V">> \o IntText(x) \o <<"=">> \o IntText(BoolInt(state))

set_all_5v_command(state) ==
  <<"A", "T", "5", "V", "=">> \o IntText(BoolInt(state))

set_5v_polarity_command(p) ==
  <<"A", "T", "V", "P", "O", "L", "=">> \o PolarityValue(p)

set_variable_command(n) == <<"A", "T", "V", "A", "R", "=">> \o FloatText(n)

\* The check at the head of set_variable (the second definition, which is
\* the one bound at run time): TRUE when it raises ValueError.
set_variable_rejects(n) ==
  FloatNe(n, Fin(0, 0)) /\ (FloatLt(n, Fin(2, 0)) \/ FloatGt(n, Fin(5, 0)))

\* Variant of ExpectOK: the comparison ignores case.
ExpectOKAnyCase(response) == LowerText(response) = <<"o", "k">>

\* response == 'OK'
ExpectOK(response) == response = <<"O", "K">>

\* get_echo: response == '1'
get_echo_result(response) == response = <<"1">>

\* Variant of DecodeBitmask: the bits come out least significant first.
DecodeBitmaskLsbFirst(response) ==
  LET v == ParseInt(response, 16)
  IN IF v.kind = "raise" THEN ValueError
     ELSE LET bits == SliceFrom(Bin(v.val), 2)
              n == Len(bits)
          IN IF \E i \in 1..n : ParseInt(<<bits[i]>>, 10).kind = "raise"
             THEN ValueError
             ELSE Return([i \in 1..n |->
                            ParseInt(<<bits[n + 1 - i]>>, 10).val # 0])

\* [bool(int(bit)) for bit in bin(int(response, 16))[2:]]
DecodeBitmask(response) ==
  LET v == ParseInt(response, 16)
  IN IF v.kind = "raise" THEN ValueError
     ELSE LET bits == SliceFrom(Bin(v.val), 2)
          IN IF \E i \in 1..Len(bits) : ParseInt(<<bits[i]>>, 10).kind = "raise"
             THEN ValueError
             ELSE Return([i \in 1..Len(bits) |->
                            ParseInt(<<bits[i]>>, 10).val # 0])

\* Variant of get_variable_result: a reply without the marker is an error.
get_variable_strict(response) ==
  IF StartsWith(response, <<"V">>) THEN ParseFloat(SliceFrom(response, 1))
  ELSE ValueError

\* float(response[1:]) if response.startswith('V') else 0.0
get_variable_result(response) ==
  IF StartsWith(response, <<"V">>) THEN ParseFloat(SliceFrom(response, 1))
  ELSE Return(Fin(0, 0))

\* ----------------------------------------------------------- operations
Callers == {1, 2}

Op(name, x, state, p, n) ==
  [name |-> name, x |-> x, state |-> state, p |-> p, n |-> n]

NoOp == Op("none", 0, FALSE, "OFF", Fin(0, 0))

Plain(name) == Op(name, 0, FALSE, "OFF", Fin(0, 0))

RailIndexes == {-MaxRail, -1, 0, 3, MaxRail}

Voltages ==
  {Fin(0, 0), Fin(2, 0), Fin(35, 1), Fin(5, 0), Fin(225, 2),
   Fin(199, 2), Fin(501, 2), Fin(-1, 0), NaN, PosInf}

OKNames ==
  {"ping", "set_echo", "reset", "set_all_ac", "set_ac", "set_all_3v",
   "set_3v", "set_all_5v", "set_5v_polarity", "set_variable"}

GetAllNames == {"get_all_ac", "get_all_3v", "get_all_5v"}

Ops ==
  {Plain(nm) : nm \in {"ping", "get_echo", "reset", "get_firmware_version",
                       "get_all_ac", "get_all_3v", "get_all_5v",
                       "get_5v_polarity", "get_variable"}}
  \cup {Op(nm, 0, s, "OFF", Fin(0, 0)) :
          nm \in {"set_echo", "set_all_ac", "set_all_3v", "set_all_5v"},
          s \in BOOLEAN}
  \cup {Op(nm, x, s, "OFF", Fin(0, 0)) :
          nm \in {"set_ac", "set_3v"}, x \in RailIndexes, s \in BOOLEAN}
  \cup {Op("set_5v_polarity", 0, FALSE, PolarityMembers[i], Fin(0, 0)) :
          i \in 1..Len(PolarityMembers)}
  \cup {Op("set_variable", 0, FALSE, "OFF", n) : n \in Voltages}

\* Operations two callers race with: one of each reply shape.
ConcOps ==
  {Plain("ping"), Plain("get_echo"), Plain("get_all_ac"),
   Op("set_ac", 3, TRUE, "OFF", Fin(0, 0)),
   Op("set_variable", 0, FALSE, "OFF", Fin(199, 2))}

\* The command text each public method hands to _send_command.
Command(o) ==
  CASE o.name = "ping" -> <<"A", "T">>
    [] o.name = "set_echo" -> set_echo_command(o.state)
    [] o.name = "get_echo" -> <<"A", "T", "E", "?">>
    [] o.name = "reset" -> <<"A", "T", "R">>
    [] o.name = "get_firmware_version" -> <<"A", "T", "V", "E", "R", "?">>
    [] o.name = "set_all_ac" -> set_all_ac_command(o.state)
    [] o.name = "get_all_ac" -> <<"A", "T", "A", "C", "?">>
    [] o.name = "set_ac" -> set_ac_command(o.x, o.state)
    [] o.name = "set_all_3v" -> set_all_3v_command(o.state)
    [] o.name = "get_all_3v" -> <<"A", "T", "3", "V", "?">>
    [] o.name = "set_3v" -> set_3v_command(o.x, o.state)
    [] o.name = "set_all_5v" -> set_all_5v_command(o.state)
    [] o.name = "get_all_5v" -> <<"A", "T", "5", "V", "?">>
    [] o.name = "set_5v_polarity" -> set_5v_polarity_command(o.p)
    [] o.name = "get_5v_polarity" -> <<"A", "T", "V", "P", "O", "L", "?">>
    [] o.name = "set_variable" -> set_variable_command(o.n)
    [] o.name = "get_variable" -> <<"A", "T", "V", "A", "R", "?">>

\* Argument checks a public method makes before _send_command: only
\* set_variable has one.
Rejects(o) == o.name = "set_variable" /\ set_variable_rejects(o.n)

\* What each public method makes of the text _send_command returned.
Result(o, response) ==
  IF o.name \in OKNames THEN Return(ExpectOK(response))
  ELSE IF o.name = "get_echo" THEN Return(get_echo_result(response))
  ELSE IF o.name = "get_firmware_version" THEN Return(response)
  ELSE IF o.name \in GetAllNames THEN DecodeBitmask(response)
  ELSE IF o.name = "get_5v_polarity" THEN Polarity(response)
  ELSE get_variable_result(response)

\* --------------------------------------------------------------- device
Text(s) == Encode(s \o <<"\n">>)

\* Lines the device may answer with, as bytes on the wire.
ReplyLines ==
  {Text(<<"O", "K">>), Text(<<"o", "k">>), Text(<<"O">>),
   Text(<<"O", "K", "K">>), Encode(<<" ", "O", "K", "\r", "\n">>),
   Text(<<>>), Text(<<"A">>), Text(<<"0">>), Text(<<"1">>),
   Text(<<"1", "F">>), Text(<<"0", "a">>), Text(<<"-", "A">>),
   Text(<<"V", "3", ".", "3", "0">>), Text(<<"V", "2", ".", "2", "5">>),
   Text(<<"V", "0", ".", "0">>), Text(<<"V">>),
   Text(<<"E", "R", "R", "O", "R">>), Text(<<"1", ".", "2">>),
   Text(<<"V", "P", "O", "S">>), Text(<<"V", "N", "E", "G">>),
   Text(<<"O", "F", "F">>), Text(<<"v", "n", "e", "g">>),
   <<255, 10>>}

\* ---------------------------------------------------------------- state
VARIABLES
  nthreads,   \* callers sharing the one Powerstrip instance
  ncalls,     \* public operations invoked so far
  pc,         \* per caller: "idle", "sent", "returned" or "raised"
  op,         \* per caller: the operation in progress or last finished
  req,        \* per caller: sequence number of that operation
  written,    \* per caller: bytes the operation passed to serial.write
  line,       \* per caller: bytes serial.readline returned to it
  response,   \* per caller: text _send_command returned
  result,     \* per caller: value returned or exception raised
  timedOut,   \* per caller: readline gave up after the read timeout
  answers,    \* per caller: request whose reply line it consumed
  nwrite,     \* per caller: serial.write calls made by the operation
  nread,      \* per caller: serial.readline calls made by the operation
  trace,      \* every transport call so far: <<"write" | "read", caller>>
  rx,         \* requests the device has received and not yet answered
  tx          \* replies waiting in the host's input buffer, by request

vars ==
  <<nthreads, ncalls, pc, op, req, written, line, response, result,
    timedOut, answers, nwrite, nread, trace, rx, tx>>

NoResult == [kind |-> "none", val |-> "none"]

UnicodeDecodeError == [kind |-> "raise", val |-> "UnicodeDecodeError"]

\* Powerstrip.__init__: one serial handle, nothing sent yet.
Construct(n) ==
  /\ nthreads = n
  /\ ncalls = 0
  /\ pc = [t \in Callers |-> "idle"]
  /\ op = [t \in Callers |-> NoOp]
  /\ req = [t \in Callers |-> 0]
  /\ written = [t \in Callers |-> <<>>]
  /\ line = [t \in Callers |-> <<>>]
  /\ response = [t \in Callers |-> <<>>]
  /\ result = [t \in Callers |-> NoResult]
  /\ timedOut = [t \in Callers |-> FALSE]
  /\ answers = [t \in Callers |-> 0]
  /\ nwrite = [t \in Callers |-> 0]
  /\ nread = [t \in Callers |-> 0]
  /\ trace = <<>>
  /\ rx = <<>>
  /\ tx = <<>>

Init == Construct(1)

InitConc == Construct(2)

OpSet == IF nthreads = 1 THEN Ops ELSE ConcOps

\* Variant of SendCommandWrite: the command line goes out twice.
SendCommandWriteTwice(t, cmd) ==
  /\ written' = [written EXCEPT ![t] = Encode(cmd \o <<"\n">>)]
  /\ nwrite' = [nwrite EXCEPT ![t] = 2]
  /\ trace' = trace \o <<<<"write", t>>, <<"write", t>>>>
  /\ rx' = rx \o <<ncalls + 1, ncalls + 1>>

\* _send_command, first statement: serial.write((cmd + "\n").encode())
SendCommandWrite(t, cmd) ==
  /\ written' = [written EXCEPT ![t] = Encode(cmd \o <<"\n">>)]
  /\ nwrite' = [nwrite EXCEPT ![t] = 1]
  /\ trace' = Append(trace, <<"write", t>>)
  /\ rx' = Append(rx, ncalls + 1)

\* A caller enters a public method: the argument check if the method has
\* one, then the command is rendered and written.
Invoke(t, o) ==
  /\ t <= nthreads
  /\ pc[t] \in {"idle", "returned", "raised"}
  /\ ncalls < MaxCalls
  /\ o \in OpSet
  /\ ncalls' = ncalls + 1
  /\ op' = [op EXCEPT ![t] = o]
  /\ req' = [req EXCEPT ![t] = ncalls + 1]
  /\ line' = [line EXCEPT ![t] = <<>>]
  /\ response' = [response EXCEPT ![t] = <<>>]
  /\ timedOut' = [timedOut EXCEPT ![t] = FALSE]
  /\ answers' = [answers EXCEPT ![t] = 0]
  /\ nread' = [nread EXCEPT ![t] = 0]
  /\ IF Rejects(o)
     THEN /\ pc' = [pc EXCEPT ![t] = "raised"]
          /\ result' = [result EXCEPT ![t] = ValueError]
          /\ written' = [written EXCEPT ![t] = <<>>]
          /\ nwrite' = [nwrite EXCEPT ![t] = 0]
          /\ UNCHANGED <<trace, rx>>
     ELSE /\ pc' = [pc EXCEPT ![t] = "sent"]
          /\ result' = [result EXCEPT ![t] = NoResult]
          /\ SendCommandWrite(t, Command(o))
  /\ UNCHANGED <<nthreads, tx>>

\* _send_command, second statement, and the rest of the public method:
\* readline() handed back the bytes bs; decode, strip, interpret.
SendCommandRead(t, bs) ==
  /\ line' = [line EXCEPT ![t] = bs]
  /\ nread' = [nread EXCEPT ![t] = nread[t] + 1]
  /\ trace' = Append(trace, <<"read", t>>)
  /\ IF ~Decodable(bs)
     THEN /\ response' = response
          /\ result' = [result EXCEPT ![t] = UnicodeDecodeError]
          /\ pc' = [pc EXCEPT ![t] = "raised"]
     ELSE LET r == Strip(Decode(bs))
              v == Result(op[t], r)
          IN /\ response' = [response EXCEPT ![t] = r]
             /\ result' = [result EXCEPT ![t] = v]
             /\ pc' = [pc EXCEPT ![t] =
                         IF v.kind = "raise" THEN "raised" ELSE "returned"]

\* serial.readline() finds a complete line in the input buffer.
ReadLine(t) ==
  /\ t <= nthreads
  /\ pc[t] = "sent"
  /\ tx # <<>>
  /\ \E bs \in ReplyLines : SendCommandRead(t, bs)
  /\ answers' = [answers EXCEPT ![t] = Head(tx)]
  /\ tx' = Tail(tx)
  /\ timedOut' = timedOut
  /\ UNCHANGED <<nthreads, ncalls, op, req, written, nwrite, rx>>

\* serial.readline() with timeout=1: nothing arrived in time, so it
\* returns the empty byte string instead of raising.
ReadTimeout(t) ==
  /\ t <= nthreads
  /\ pc[t] = "sent"
  /\ tx = <<>>
  /\ SendCommandRead(t, <<>>)
  /\ timedOut' = [timedOut EXCEPT ![t] = TRUE]
  /\ UNCHANGED <<nthreads, ncalls, op, req, written, nwrite, rx, tx, answers>>

\* The device answers the oldest command it has received.
DeviceReply ==
  /\ rx # <<>>
  /\ tx' = Append(tx, Head(rx))
  /\ rx' = Tail(rx)
  /\ UNCHANGED <<nthreads, ncalls, pc, op, req, written, line, response,
                 result, timedOut, answers, nwrite, nread, trace>>

Next ==
  \/ \E t \in Callers : \E o \in Ops : Invoke(t, o)
  \/ \E t \in Callers : ReadLine(t)
  \/ \E t \in Callers : ReadTimeout(t)
  \/ DeviceReply

Spec == Init /\ [][Next]_vars

SpecConc == InitConc /\ [][Next]_vars

TypeOK ==
  /\ nthreads \in 1..2
  /\ ncalls \in 0..MaxCalls
  /\ \A t \in Callers : pc[t] \in {"idle", "sent", "returned", "raised"}
  /\ \A t \in Callers : op[t] \in Ops \cup {NoOp}
  /\ Len(trace) <= 2 * MaxCalls

\* ------------------------------------------------------------ properties
Done(t) == pc[t] \in {"returned", "raised"}

\* The legal variable-voltage domain {0.0} \cup [2.0, 5.0].
InDomain(n) ==
  /\ n.kind = "fin"
  /\ \/ n.m = 0
     \/ 2 * Pow10(n.e) <= n.m /\ n.m <= 5 * Pow10(n.e)

RECURSIVE JoinText(_)
JoinText(s) == IF s = <<>> THEN "" ELSE Head(s) \o JoinText(Tail(s))

OneLine(bs) ==
  /\ bs # <<>>
  /\ bs[Len(bs)] = 10
  /\ \A i \in 1..(Len(bs) - 1) : bs[i] # 10

RECURSIVE BitsValue(_)
BitsValue(bits) ==
  IF bits = <<>> THEN 0
  ELSE 2 * BitsValue(SubSeq(bits, 1, Len(bits) - 1))
       + (IF bits[Len(bits)] THEN 1 ELSE 0)

RECURSIVE Pow2(_)
Pow2(k) == IF k = 0 THEN 1 ELSE 2 * Pow2(k - 1)

\* floor(log2(v)) + 1 for v > 0
BitLength(v) == CHOOSE k \in 1..32 : Pow2(k - 1) <= v /\ v < Pow2(k)

\* C1: set_variable(n) with n outside {0.0} \cup [2.0, 5.0] raises the
\* validation error and makes no transport call; with n inside it writes
\* the one command line ATVAR=<n>.
C1_SetVariableValidated ==
  \A t \in Callers :
    pc[t] # "idle" /\ op[t].name = "set_variable" =>
      IF InDomain(op[t].n)
      THEN /\ nwrite[t] = 1
           /\ written[t] = Encode(<<"A", "T", "V", "A", "R", "=">>
                                  \o FloatText(op[t].n) \o <<"\n">>)
      ELSE /\ pc[t] = "raised"
           /\ result[t] = ValueError
           /\ nwrite[t] = 0
           /\ nread[t] = 0

\* What holds of set_variable for every argument but nan.
SetVariableValidatedUnlessNaN ==
  \A t \in Callers :
    pc[t] # "idle" /\ op[t].name = "set_variable" /\ op[t].n.kind # "nan" =>
      IF InDomain(op[t].n)
      THEN nwrite[t] = 1
      ELSE pc[t] = "raised" /\ result[t] = ValueError
           /\ nwrite[t] = 0 /\ nread[t] = 0

\* C2: set_ac(x, state) and set_3v(x, state) with a negative rail index x
\* fail in argument validation and never write to or read from the
\* transport.
C2_NegativeRailRejected ==
  \A t \in Callers :
    pc[t] # "idle" /\ op[t].name \in {"set_ac", "set_3v"} /\ op[t].x < 0 =>
      pc[t] = "raised" /\ nwrite[t] = 0 /\ nread[t] = 0

\* C3: every public operation whose arguments pass validation makes
\* exactly one write of one command line and then exactly one read; the
\* transport trace of a sequence of calls alternates write, read, write,
\* read.
C3_OneWriteThenOneRead ==
  /\ \A i \in 1..Len(trace) :
       trace[i][1] = (IF i % 2 = 1 THEN "write" ELSE "read")
  /\ \A t \in Callers :
       pc[t] = "sent" =>
         nwrite[t] = 1 /\ nread[t] = 0 /\ OneLine(written[t])
  /\ \A t \in Callers :
       Done(t) =>
         \/ nwrite[t] = 1 /\ nread[t] = 1 /\ OneLine(written[t])
         \/ /\ op[t].name = "set_variable"
            /\ result[t] = ValueError
            /\ nwrite[t] = 0
            /\ nread[t] = 0

C3_Witness ==
  /\ Len(trace) = 4
  /\ pc[1] = "returned"
  /\ nwrite[1] = 1
  /\ nread[1] = 1

\* C4: get_all_ac, get_all_3v and get_all_5v turn a hexadecimal reply of
\* value v into booleans, most significant bit first, that read back as v
\* and number floor(log2(v)) + 1 for v > 0, and into [false] for v = 0;
\* the reply A gives [true, false, true, false].
C4_BitmaskDecoding ==
  \A t \in Callers :
    Done(t) /\ op[t].name \in GetAllNames /\ AllDigits(response[t], 16) =>
      LET v == DigitsVal(response[t], 16)
      IN /\ pc[t] = "returned"
         /\ BitsValue(result[t].val) = v
         /\ v > 0 => Len(result[t].val) = BitLength(v)
         /\ v = 0 => result[t].val = <<FALSE>>
         /\ response[t] = <<"A">> =>
              result[t].val = <<TRUE, FALSE, TRUE, FALSE>>
         /\ response[t] = <<"1", "F">> =>
              result[t].val = <<TRUE, TRUE, TRUE, TRUE, TRUE>>

C4_Witness ==
  /\ pc[1] = "returned"
  /\ op[1].name = "get_all_5v"
  /\ response[1] = <<"A">>
  /\ result[1].val = <<TRUE, FALSE, TRUE, FALSE>>

PolarityTokens ==
  {<<"V", "P", "O", "S">>, <<"V", "N", "E", "G">>, <<"O", "F", "F">>}

\* The token set_5v_polarity(p) puts after ATVPOL=.
SentToken(p) == SliceFrom(set_5v_polarity_command(p), 7)

\* C5: the three variants and the tokens VPOS, VNEG, OFF correspond one
\* to one: the token set_5v_polarity(p) sends after ATVPOL= is decoded by
\* get_5v_polarity back to p, and get_5v_polarity on any other reply
\* raises instead of returning a variant.
C5_PolarityBijection ==
  /\ \A t \in Callers :
       pc[t] # "idle" /\ op[t].name = "set_5v_polarity" =>
         /\ written[t] = Encode(<<"A", "T", "V", "P", "O", "L", "=">>
                                \o SentToken(op[t].p) \o <<"\n">>)
         /\ SentToken(op[t].p) \in PolarityTokens
  /\ \A t \in Callers :
       Done(t) /\ op[t].name = "get_5v_polarity" /\ nread[t] = 1 =>
         /\ \A i \in 1..Len(PolarityMembers) :
              response[t] = SentToken(PolarityMembers[i]) =>
                result[t] = Return(PolarityMembers[i])
         /\ response[t] \notin PolarityTokens =>
              pc[t] = "raised" /\ result[t].kind = "raise"
         /\ response[t] \in PolarityTokens => pc[t] = "returned"

C5_Witness ==
  /\ pc[1] = "returned"
  /\ op[1].name = "get_5v_polarity"
  /\ response[1] = SentToken("NEGATIVE")
  /\ result[1] = Return("NEGATIVE")

\* C6: an OK-expecting operation returns true exactly when the whole
\* trimmed reply is the token OK, case-sensitively: OK gives true; ok,
\* the empty reply and partial or longer tokens give false.
C6_ExactOK ==
  \A t \in Callers :
    Done(t) /\ op[t].name \in OKNames /\ nread[t] = 1 /\ Decodable(line[t]) =>
      /\ pc[t] = "returned"
      /\ result[t].val = (response[t] = <<"O", "K">>)
      /\ line[t] \in {<<79, 75, 10>>, <<32, 79, 75, 13, 10>>} =>
           result[t].val = TRUE
      /\ line[t] \in {<<111, 107, 10>>, <<10>>, <<>>, <<79, 10>>,
                      <<79, 75, 75, 10>>} =>
           result[t].val = FALSE

C6_Witness ==
  /\ pc[1] = "returned"
  /\ op[1].name = "set_variable"
  /\ line[1] = <<32, 79, 75, 13, 10>>
  /\ result[1] = Return(TRUE)

\* C7: set_ac(x, state) writes exactly ATAC, the decimal rail index, =,
\* and 1 for true or 0 for false, and nothing else; set_3v likewise with
\* AT3V.  set_ac(3, true) writes ATAC3=1.
C7_SetRailCommandText ==
  \A t \in Callers :
    pc[t] # "idle" /\ op[t].name \in {"set_ac", "set_3v"} =>
      /\ nwrite[t] = 1
      /\ Decodable(written[t])
      /\ JoinText(Decode(written[t]))
           = (IF op[t].name = "set_ac" THEN "ATAC" ELSE "AT3V")
             \o ToString(op[t].x) \o "="
             \o (IF op[t].state THEN "1" ELSE "0") \o "\n"

C7_Witness ==
  /\ pc[1] = "sent"
  /\ op[1].name = "set_ac"
  /\ op[1].x = 3
  /\ op[1].state
  /\ written[1] = <<65, 84, 65, 67, 51, 61, 49, 10>>

\* C8: get_variable turns a reply V<number> into that number (V3.30 gives
\* 3.3), and for every reply that does not start with V it returns 0.0
\* and raises nothing.
C8_GetVariableDecoding ==
  \A t \in Callers :
    Done(t) /\ op[t].name = "get_variable" /\ Decodable(line[t]) =>
      /\ \A n \in Voltages :
           response[t] = <<"V">> \o FloatText(n) => result[t] = Return(n)
      /\ response[t] = <<"V", "3", ".", "3", "0">> =>
           result[t] = Return([kind |-> "fin", m |-> 33, e |-> 1])
      /\ (response[t] = <<>> \/ response[t][1] # "V") =>
           pc[t] = "returned" /\ result[t] = Return(Fin(0, 0))

C8_Witness ==
  /\ pc[1] = "returned"
  /\ op[1].name = "get_variable"
  /\ response[1] = <<"V", "3", ".", "3", "0">>
  /\ result[1] = Return([kind |-> "fin", m |-> 33, e |-> 1])

\* C9: an operation whose read times out raises to its caller instead of
\* returning a normal result, and writes nothing further.
C9_TimeoutRaises ==
  \A t \in Callers :
    Done(t) /\ timedOut[t] => pc[t] = "raised" /\ nwrite[t] = 1

\* The half of C9 the code keeps: a timed-out operation is not retried.
TimeoutNotRetried ==
  \A t \in Callers : Done(t) /\ timedOut[t] => nwrite[t] = 1 /\ nread[t] = 1

\* C10: with two callers on one instance, no write or read of one
\* operation falls between the write and the read of another, and each
\* caller reads the reply to its own command.
C10_CallersSerialized ==
  /\ \A i \in 1..Len(trace) :
       trace[i][1] = "write" /\ i < Len(trace) =>
         trace[i + 1] = <<"read", trace[i][2]>>
  /\ \A t \in Callers :
       Done(t) /\ nread[t] = 1 /\ ~timedOut[t] => answers[t] = req[t]
====
